---------------------------- MODULE Spec2Model ----------------------------
(***************************************************************************)
(* State-machine model of the WebHDFS request layer, src/webhdfs/request.c *)
(* (webhdfs_req_open, webhdfs_req_set_args, webhdfs_req_set_upload,        *)
(* webhdfs_req_exec, the two libcurl callbacks, webhdfs_req_json_response).*)
(*                                                                         *)
(* C strings are sequences of one-character strings.  A nullable           *)
(* `const char *` is a record [null, s].  Memory that a C string is read   *)
(* from is a sequence of cells in which the cell NUL is the terminator.    *)
(* Every variable is a function over Reqs, the requests of the program:    *)
(* request.c keeps no state outside the request it is handed.              *)
(***************************************************************************)
EXTENDS Integers, Sequences, FiniteSets, TLC

VARIABLES
    conf,         \* fs->conf of the filesystem the request was opened on
    buffer,       \* req->buffer : [blob, size]
    upload,       \* req->upload : "NULL" or the name of the caller's producer
    upload_data,  \* req->upload_data : what the producer's context still holds
    rcode,        \* req->rcode
    pc,           \* where the caller / webhdfs_req_exec stands
    type,         \* webhdfs_req_exec's argument `type`
    curl,         \* the easy handle `curl` of webhdfs_req_exec
    headers,      \* the local `headers` of webhdfs_req_exec
    err,          \* the local `err` of webhdfs_req_exec
    xfer,         \* the engine's transfer in progress (inside curl_easy_perform)
    out,          \* what the caller gets back: return value, *error, stderr,
                  \* the document of webhdfs_req_json_response
    hist          \* history of the call (observations only, never read by the code)

vars == <<conf, buffer, upload, upload_data, rcode, pc, type, curl, headers,
          err, xfer, out, hist>>

(***************************************************************************)
(* Bounds of the model.                                                    *)
(***************************************************************************)
MaxArgs == 1      \* webhdfs_req_set_args calls per request
MaxDeliver == 1   \* body chunks the engine delivers per transfer
MaxHops == 1      \* redirects the engine follows by itself per transfer
MaxExecs == 2     \* webhdfs_req_exec calls on one request without a new open

Reqs == {1, 2}

(***************************************************************************)
(* Strings.                                                                *)
(***************************************************************************)
NUL == "NUL"
NullStr == [null |-> TRUE, s |-> <<>>]
Ptr(s) == [null |-> FALSE, s |-> s]

Min(a, b) == IF a <= b THEN a ELSE b

Digit(d) == <<"0", "1", "2", "3", "4", "5", "6", "7", "8", "9">>[d + 1]

RECURSIVE FormatNat(_)
FormatNat(n) == IF n < 10 THEN <<Digit(n)>>
                ELSE FormatNat(n \div 10) \o <<Digit(n % 10)>>

\* printf's %d
FormatD(n) == IF n < 0 THEN <<"-">> \o FormatNat(0 - n) ELSE FormatNat(n)

\* index of the first cell of mem, from position i on, that holds NUL; 0 if none
RECURSIVE NulAt(_, _)
NulAt(mem, i) == IF i > Len(mem) THEN 0
                 ELSE IF mem[i] = NUL THEN i
                 ELSE NulAt(mem, i + 1)

\* what lies behind the end of an allocation, as far as a %s read runs into it
Overrun == {<<>>, <<"#">>}

\* the C strings a read of the memory `mem` from its first cell can yield:
\* the cells before the first NUL, or, with no NUL in the allocation, all of
\* it and whatever follows it (a read past the end)
CStrSet(mem) == IF NulAt(mem, 1) > 0
                THEN {SubSeq(mem, 1, NulAt(mem, 1) - 1)}
                ELSE {mem \o g : g \in Overrun}

\* whether part occurs in whole as a contiguous substring
Contains(whole, part) ==
    \E i \in 0..(Len(whole) - Len(part)) :
        SubSeq(whole, i + 1, i + Len(part)) = part

\* number of (possibly overlapping) occurrences of part in whole
Occurrences(whole, part) ==
    Cardinality({i \in 0..(Len(whole) - Len(part)) :
                    SubSeq(whole, i + 1, i + Len(part)) = part})

(***************************************************************************)
(* The growable buffer (buffer_open, buffer_clear, buffer_append,          *)
(* buffer_append_format): used by request.c, defined outside it.           *)
(***************************************************************************)
\* mem with data written from offset off on (the allocation grows if needed)
Overwrite(mem, off, data) ==
    SubSeq(mem, 1, off) \o data \o SubSeq(mem, off + Len(data) + 1, Len(mem))

buffer_open == [blob |-> <<>>, size |-> 0]

\* reset the length, keep the storage and what it holds
buffer_clear(b) == [b EXCEPT !.size = 0]

\* append raw bytes; on allocation failure the buffer is left as it was.
\* request.c reads blob as a C string wherever it reads it (lines 121, 179,
\* 199), and a response body is decoded from it: the bytes are followed by a
\* terminator that is not counted in size.
buffer_append(b, data, fail) ==
    IF fail THEN b
    ELSE [blob |-> Overwrite(b.blob, b.size, data \o <<NUL>>),
          size |-> b.size + Len(data)]

\* append formatted text (vsnprintf writes the text and a terminator that is
\* not counted in size); on allocation failure the buffer is left as it was
buffer_append_format(b, text, fail) ==
    IF fail THEN b
    ELSE [blob |-> Overwrite(b.blob, b.size, text \o <<NUL>>),
          size |-> b.size + Len(text)]

\* the buffer's contents: the first size cells of blob
Contents(b) == SubSeq(b.blob, 1, b.size)

(***************************************************************************)
(* webhdfs_req_open: the URL.                                              *)
(***************************************************************************)
Scheme(c) == IF c.use_ssl THEN <<"h", "t", "t", "p", "s">> ELSE <<"h", "t", "t", "p">>

\* the strings `(path != NULL) ? path + 1 : ""` can denote.  path + 1 skips
\* the first character whatever it is; for the empty string it points behind
\* the terminator, and %s reads what follows the string.
PathArgs(path) ==
    IF path.null THEN {<<>>}
    ELSE IF path.s = <<>> THEN Overrun
    ELSE {Tail(path.s)}

\* "%s://%s:%d/webhdfs/v1/%s?"
BaseUrl(c, arg) ==
    Scheme(c) \o <<":", "/", "/">> \o c.hdfs_host \o <<":">> \o FormatD(c.webhdfs_port)
    \o <<"/", "w", "e", "b", "h", "d", "f", "s", "/", "v", "1", "/">> \o arg \o <<"?">>

\* "user.name=%s&"
UserParam(c) ==
    <<"u", "s", "e", "r", ".", "n", "a", "m", "e", "=">> \o c.hdfs_user.s \o <<"&">>

\* "delegation=%s&"
TokenParam(c) ==
    <<"d", "e", "l", "e", "g", "a", "t", "i", "o", "n", "=">> \o c.token.s \o <<"&">>

\* r |= ... over the append results (0 on success, 1 on failure)
OrResults(f1, f2, f3) == IF f1 \/ f2 \/ f3 THEN 1 ELSE 0

\* the buffer webhdfs_req_open leaves: f1, f2, f3 tell which append fails
OpenBuffer(c, arg, f1, f2, f3) ==
    LET b0 == buffer_clear(buffer_open)
        b1 == buffer_append_format(b0, BaseUrl(c, arg), f1)
        b2 == IF ~c.hdfs_user.null
              THEN buffer_append_format(b1, UserParam(c), f2) ELSE b1
        b3 == IF ~c.token.null
              THEN buffer_append_format(b2, TokenParam(c), f3) ELSE b2
    IN  b3

(***************************************************************************)
(* Inputs.                                                                 *)
(***************************************************************************)
Hosts == {<<"n", "n">>}
Ports == {50070}
Users == {NullStr, Ptr(<<"u">>), Ptr(<<"a", "&", "b">>)}
Tokens == {NullStr, Ptr(<<"t">>)}

Confs == [use_ssl : BOOLEAN, hdfs_host : Hosts, webhdfs_port : Ports,
          hdfs_user : Users, token : Tokens]

\* the configuration of the executions: a plain-http namenode, a user, no token
ExecConfs == {c \in Confs : ~c.use_ssl /\ c.hdfs_user = Ptr(<<"u">>) /\ c.token.null}

Paths == {NullStr, Ptr(<<>>), Ptr(<<"/">>), Ptr(<<"/", "f">>)}
ExecPaths == {Ptr(<<"/", "f">>)}

ArgTexts == {<<"o", "p", "=", "C", "R", "E", "A", "T", "E">>}

\* what the caller's producer has to send
Sources == {<<"a", "b">>}
\* max_count (size * nitems) the engine asks the read callback for
MaxCounts == {1, 2}

\* req->rcode before the first execution: webhdfs_req_open does not set it
RcodeUnset == {0, 999}

Types == {"GET", "PUT", "POST", "DELETE"}

NoHandle == [state |-> "none", url |-> NullStr, follow |-> FALSE,
             writefn |-> "default", readfn |-> "default",
             writedata |-> 0, readdata |-> 0,
             method |-> "GET", bodymode |-> "none", httpheader |-> "null",
             info_rcode |-> 0, info_redirect |-> NullStr, misuse |-> FALSE]

NoXfer == [st |-> "idle", eof |-> FALSE, delivered |-> 0, hops |-> 0]

NoOut == [ret |-> 0, error |-> NullStr, errorSet |-> FALSE, stderr |-> <<>>,
          decoded |-> FALSE, doc |-> NullStr]

NoPre == [buffer |-> buffer_open, upload |-> "NULL", upload_data |-> <<>>,
          rcode |-> 0, url |-> NullStr]

NoHist == [path |-> NullStr, wanted |-> <<>>, errSeen |-> FALSE, appendFailed |-> FALSE,
           oob |-> FALSE, nargs |-> 0, execs |-> 0, initFailed |-> FALSE,
           pre |-> NoPre, xfers |-> <<>>, prodlog |-> {}, writes |-> 0, reads |-> 0,
           lastw |-> [chunk |-> <<>>, n |-> 0, before |-> <<>>, req |-> 0],
           lastr |-> [max |-> 0, n |-> 0, bytes |-> <<>>, adapter |-> FALSE,
                      produced |-> FALSE, before |-> <<>>, up |-> "NULL"],
           retrieved |-> FALSE, retargeted |-> FALSE, op |-> "none",
           prev |-> [done |-> FALSE, url |-> NullStr, accepted |-> <<>>,
                     accepted1 |-> <<>>]]

InitWith(cs) ==
    /\ conf \in [Reqs -> cs]
    /\ conf[1] = conf[2]
    /\ buffer = [r \in Reqs |-> buffer_open]
    /\ upload = [r \in Reqs |-> "NULL"]
    /\ upload_data = [r \in Reqs |-> <<>>]
    /\ rcode \in [Reqs -> RcodeUnset]
    /\ rcode[2] = 0
    /\ pc = [r \in Reqs |-> "new"]
    /\ type = [r \in Reqs |-> "GET"]
    /\ curl = [r \in Reqs |-> NoHandle]
    /\ headers = [r \in Reqs |-> "null"]
    /\ err = [r \in Reqs |-> 0]
    /\ xfer = [r \in Reqs |-> NoXfer]
    /\ out = [r \in Reqs |-> NoOut]
    /\ hist = [r \in Reqs |-> NoHist]

Init == InitWith(ExecConfs)

InitBuild == InitWith(Confs)

(***************************************************************************)
(* The builder's operations.                                               *)
(***************************************************************************)
\* OpenBody if lines 66-67 were missing: the capability is left as it is
OpenBody_KeepsUpload(r, path, f1, f2, f3) ==
    /\ (conf[r].hdfs_user.null => ~f2)
    /\ (conf[r].token.null => ~f3)
    /\ \E arg \in PathArgs(path) :
          /\ buffer' = [buffer EXCEPT ![r] = OpenBuffer(conf[r], arg, f1, f2, f3)]
          /\ hist' = [hist EXCEPT ![r].path = path,
                                  ![r].wanted = Contents(OpenBuffer(conf[r], arg, FALSE, FALSE, FALSE)),
                                  ![r].errSeen = OrResults(f1, f2, f3) # 0,
                                  ![r].appendFailed = f1 \/ f2 \/ f3,
                                  ![r].oob = (~path.null /\ path.s = <<>>),
                                  ![r].op = "open"]
    /\ UNCHANGED <<upload, upload_data>>
    /\ out' = [out EXCEPT ![r].ret = OrResults(f1, f2, f3)]
    /\ pc' = [pc EXCEPT ![r] = "built"]
    /\ UNCHANGED <<conf, rcode, type, curl, headers, err, xfer>>

\* lines 61-83 of webhdfs_req_open(req, fs, path); f1, f2, f3: which of its
\* appends fail
OpenBody(r, path, f1, f2, f3) ==
    /\ (conf[r].hdfs_user.null => ~f2)
    /\ (conf[r].token.null => ~f3)
    /\ \E arg \in PathArgs(path) :
          /\ buffer' = [buffer EXCEPT ![r] = OpenBuffer(conf[r], arg, f1, f2, f3)]
          /\ hist' = [hist EXCEPT ![r].path = path,
                                  ![r].wanted = Contents(OpenBuffer(conf[r], arg, FALSE, FALSE, FALSE)),
                                  ![r].errSeen = OrResults(f1, f2, f3) # 0,
                                  ![r].appendFailed = f1 \/ f2 \/ f3,
                                  ![r].oob = (~path.null /\ path.s = <<>>),
                                  ![r].op = "open"]
    /\ upload' = [upload EXCEPT ![r] = "NULL"]
    /\ upload_data' = [upload_data EXCEPT ![r] = <<>>]
    /\ out' = [out EXCEPT ![r].ret = OrResults(f1, f2, f3)]
    /\ pc' = [pc EXCEPT ![r] = "built"]
    /\ UNCHANGED <<conf, rcode, type, curl, headers, err, xfer>>

\* webhdfs_req_open on a request not opened before
Open(r, path, f1, f2, f3) ==
    /\ pc[r] = "new"
    /\ OpenBody(r, path, f1, f2, f3)

\* webhdfs_req_open on a request that was opened before and not yet executed
Reopen(r, path, f1, f2, f3) ==
    /\ pc[r] = "built"
    /\ OpenBody(r, path, f1, f2, f3)

\* the value webhdfs_req_set_args returns: `r`, set to 0 and never assigned
SetArgsResult(fail) == 0

\* webhdfs_req_set_args(req, frmt, ...); text: what the format expands to
SetArgs(r, text, fail) ==
    /\ pc[r] = "built"
    /\ hist[r].nargs < MaxArgs
    /\ buffer' = [buffer EXCEPT ![r] = buffer_append_format(buffer[r], text, fail)]
    /\ out' = [out EXCEPT ![r].ret = SetArgsResult(fail)]
    /\ hist' = [hist EXCEPT ![r].nargs = @ + 1,
                            ![r].op = "set_args",
                            ![r].wanted = @ \o text,
                            ![r].errSeen = @ \/ (SetArgsResult(fail) # 0),
                            ![r].appendFailed = @ \/ fail]
    /\ UNCHANGED <<conf, upload, upload_data, rcode, pc, type, curl, headers, err, xfer>>

\* webhdfs_req_set_upload(req, func, user_data)
SetUpload(r, func, data) ==
    /\ pc[r] = "built"
    /\ (func = "NULL" => data = <<>>)
    /\ <<func, data>> # <<upload[r], upload_data[r]>>
    /\ upload' = [upload EXCEPT ![r] = func]
    /\ upload_data' = [upload_data EXCEPT ![r] = data]
    /\ out' = [out EXCEPT ![r].ret = 0]
    /\ hist' = [hist EXCEPT ![r].op = "set_upload"]
    /\ UNCHANGED <<conf, buffer, rcode, pc, type, curl, headers, err, xfer>>

NextBuild ==
    \E r \in {1} :
        \/ \E path \in Paths, f1, f2, f3 \in BOOLEAN : Open(r, path, f1, f2, f3)
        \/ \E text \in ArgTexts, fail \in BOOLEAN : SetArgs(r, text, fail)
        \/ \E func \in {"NULL", "producer"}, data \in Sources \cup {<<>>} :
              SetUpload(r, func, data)

SpecBuild == InitBuild /\ [][NextBuild]_vars

(***************************************************************************)
(* The transport engine (libcurl's easy interface), as request.c uses it.  *)
(***************************************************************************)
\* every operation on a handle goes through Use: touching a handle that is
\* not live is recorded in the handle
Use(h) == IF h.state = "live" THEN h ELSE [h EXCEPT !.misuse = TRUE]

\* curl_easy_init: a fresh live handle, or NULL when the engine cannot start
curl_easy_init(ok) == IF ok THEN [NoHandle EXCEPT !.state = "live"] ELSE NoHandle

curl_easy_cleanup(h) == [Use(h) EXCEPT !.state = "released"]

\* curl_easy_strerror
curl_easy_strerror(e) ==
    CASE e = 3 -> <<"U", "R", "L", " ", "u", "s", "i", "n", "g", " ", "b", "a", "d", "/",
                    "i", "l", "l", "e", "g", "a", "l", " ", "f", "o", "r", "m", "a", "t",
                    " ", "o", "r", " ", "m", "i", "s", "s", "i", "n", "g", " ", "U", "R", "L">>
      [] e = 7 -> <<"C", "o", "u", "l", "d", "n", "'", "t", " ", "c", "o", "n", "n", "e",
                    "c", "t", " ", "t", "o", " ", "s", "e", "r", "v", "e", "r">>
      [] e = 23 -> <<"F", "a", "i", "l", "e", "d", " ", "w", "r", "i", "t", "i", "n", "g",
                     " ", "r", "e", "c", "e", "i", "v", "e", "d", " ", "d", "a", "t", "a",
                     " ", "t", "o", " ", "d", "i", "s", "k", "/", "a", "p", "p", "l", "i",
                     "c", "a", "t", "i", "o", "n">>
      [] e = 56 -> <<"F", "a", "i", "l", "u", "r", "e", " ", "w", "h", "e", "n", " ", "r",
                     "e", "c", "e", "i", "v", "i", "n", "g", " ", "d", "a", "t", "a", " ",
                     "f", "r", "o", "m", " ", "t", "h", "e", " ", "p", "e", "e", "r">>
      [] OTHER -> <<"N", "o", " ", "e", "r", "r", "o", "r">>

\* the datanode URL the namenode redirects an upload to
Locations == {Ptr(<<"h", "t", "t", "p", ":", "/", "/", "d", "n", ":", "5", "0", "0", "7",
                    "5", "/", "f">>)}

Statuses == {200, 307}
IsRedirect(status) == status = 307

\* response body chunks the engine hands to the write callback
Chunks == {<<"x">>, <<"y", "z">>}

(***************************************************************************)
(* The streaming bridge.                                                   *)
(***************************************************************************)
\* the caller's producer: fills up to max bytes from its context, 0 at the end
Producer(data, max) ==
    [n |-> Min(max, Len(data)),
     bytes |-> SubSeq(data, 1, Min(max, Len(data))),
     rest |-> SubSeq(data, Min(max, Len(data)) + 1, Len(data)),
     produced |-> TRUE]

\* webhdfs_req_read if it reported the room it was given instead of the
\* producer's count
webhdfs_req_read_ReturnsMax(up, data, max) ==
    IF up = "NULL"
    THEN [n |-> 0, bytes |-> <<>>, rest |-> data, produced |-> FALSE]
    ELSE [Producer(data, max) EXCEPT !.n = max]

\* __webhdfs_req_read(ptr, size, nitems, stream), max = size * nitems
webhdfs_req_read(up, data, max) ==
    IF up = "NULL"
    THEN [n |-> 0, bytes |-> <<>>, rest |-> data, produced |-> FALSE]
    ELSE Producer(data, max)

\* webhdfs_req_write if it reported the bytes as consumed whatever the append
\* returned
webhdfs_req_write_IgnoresAppend(b, chunk, fail) ==
    [buffer |-> buffer_append(b, chunk, fail),
     n |-> Len(chunk)]

\* __webhdfs_req_write(ptr, size, nitems, stream), chunk = the size * nitems bytes
webhdfs_req_write(b, chunk, fail) ==
    [buffer |-> buffer_append(b, chunk, fail),
     n |-> IF fail THEN 0 ELSE Len(chunk)]

(***************************************************************************)
(* webhdfs_req_exec.                                                       *)
(***************************************************************************)
ErrMsgSize == 512

\* snprintf(dst, n, ...): at most n - 1 characters and the terminator
Truncate(s, n) == SubSeq(s, 1, Min(Len(s), n - 1))

\* printf's %s of a C string pointer (glibc prints a null pointer as "(null)")
FormatS(p) == IF p.null THEN <<"(", "n", "u", "l", "l", ")">> ELSE p.s

\* what req->buffer.blob reads as when it is used as a C string
BlobStrs(b) == IF b.blob = <<>> THEN {NullStr} ELSE {Ptr(s) : s \in CStrSet(b.blob)}

\* snprintf(*error, 512, "%s (url: %s)", curl_easy_strerror(err), req->buffer.blob)
ErrorMessage(e, blobstr) ==
    Truncate(curl_easy_strerror(e) \o <<" ", "(", "u", "r", "l", ":", " ">>
             \o FormatS(blobstr) \o <<")">>, ErrMsgSize)

\* Configure1 if the write callback's stream were one request shared by all
\* handles instead of the request of the call
Configure1_SharedStream(h, url, up, t, req) ==
    [Use(h) EXCEPT !.url = url,
                   !.follow = (up = "NULL"),
                   !.writefn = "webhdfs_req_write",
                   !.writedata = 1,
                   !.method = t]

\* Configure1 if redirects were followed whether or not an upload is bound
Configure1_FollowAlways(h, url, up, t, req) ==
    [Use(h) EXCEPT !.url = url,
                   !.follow = TRUE,
                   !.writefn = "webhdfs_req_write",
                   !.writedata = req,
                   !.method = t]

\* Configure1 as a one-step upload would have it: the read callback and the
\* body mode are attached before the first transfer
Configure1_OneStep(h, url, up, t, req) ==
    [Use(h) EXCEPT !.url = url,
                   !.follow = (up = "NULL"),
                   !.writefn = "webhdfs_req_write",
                   !.writedata = req,
                   !.method = t,
                   !.readfn = IF up # "NULL" THEN "webhdfs_req_read" ELSE @,
                   !.readdata = IF up # "NULL" THEN req ELSE @,
                   !.bodymode = IF up # "NULL" /\ t \in {"PUT", "POST"} THEN t ELSE @]

\* the handle after lines 121-144: URL, redirect following, write callback
\* bound to the request req, method
Configure1(h, url, up, t, req) ==
    [Use(h) EXCEPT !.url = url,
                   !.follow = (up = "NULL"),
                   !.writefn = "webhdfs_req_write",
                   !.writedata = req,
                   !.method = t]

\* the handle after lines 156-171: redirect URL, chunked header, read callback
\* bound to the request req, body mode by type
Configure2(h, url, hdrs, t, req) ==
    [Use(h) EXCEPT !.url = url,
                   !.httpheader = hdrs,
                   !.readfn = "webhdfs_req_read",
                   !.readdata = req,
                   !.bodymode = IF t = "PUT" THEN "PUT"
                                ELSE IF t = "POST" THEN "POST" ELSE @]

\* TwoStep if only the data-bearing methods took the two-step path
TwoStep_ByType(up, t) == up # "NULL" /\ t \in {"PUT", "POST"}

\* whether the two-step upload path is taken (line 147)
TwoStep(up, t) == up # "NULL"

\* FinalRcode if the response code were read only after a successful transfer
FinalRcode_OnSuccessOnly(h, old, e) == IF e = 0 THEN Use(h).info_rcode ELSE old

\* req->rcode after line 186: the handle's response code, whatever err is
FinalRcode(h, old, e) == Use(h).info_rcode

\* FinishHandle if the failure branch returned without the cleanup
FinishHandle_LeakOnError(h, e) == IF e # 0 THEN Use(h) ELSE curl_easy_cleanup(Use(h))

\* the handle after lines 186-187: queried for the response code, then released
FinishHandle(h, e) == curl_easy_cleanup(Use(h))

\* the local headers after lines 183-184
FreeHeaders(hdrs) == IF hdrs # "null" THEN "freed" ELSE hdrs

\* ExecInitFail if the handle were checked only after line 123's buffer_clear
ExecInitFail_AfterClear(r, t) ==
    /\ pc[r] = "built"
    /\ type' = [type EXCEPT ![r] = t]
    /\ curl' = [curl EXCEPT ![r] = curl_easy_init(FALSE)]
    /\ buffer' = [buffer EXCEPT ![r] = buffer_clear(@)]
    /\ out' = [out EXCEPT ![r].ret = 1]
    /\ hist' = [hist EXCEPT ![r].execs = @ + 1,
                            ![r].op = "exec",
                            ![r].initFailed = TRUE,
                            ![r].pre = [buffer |-> buffer[r], upload |-> upload[r],
                                        upload_data |-> upload_data[r],
                                        rcode |-> rcode[r], url |-> NullStr]]
    /\ pc' = [pc EXCEPT ![r] = "done"]
    /\ UNCHANGED <<conf, upload, upload_data, rcode, headers, err, xfer>>

\* curl_easy_init() == NULL: return(1)
ExecInitFail(r, t) ==
    /\ pc[r] = "built"
    /\ type' = [type EXCEPT ![r] = t]
    /\ curl' = [curl EXCEPT ![r] = curl_easy_init(FALSE)]
    /\ out' = [out EXCEPT ![r].ret = 1]
    /\ hist' = [hist EXCEPT ![r].execs = @ + 1,
                            ![r].op = "exec",
                            ![r].initFailed = TRUE,
                            ![r].pre = [buffer |-> buffer[r], upload |-> upload[r],
                                        upload_data |-> upload_data[r],
                                        rcode |-> rcode[r], url |-> NullStr]]
    /\ pc' = [pc EXCEPT ![r] = "done"]
    /\ UNCHANGED <<conf, buffer, upload, upload_data, rcode, headers, err, xfer>>

\* lines 118-144: the handle is acquired and configured, the URL handed over
\* and the buffer cleared
ExecBegin(r, t) ==
    /\ pc[r] = "built"
    /\ type' = [type EXCEPT ![r] = t]
    /\ \E url \in BlobStrs(buffer[r]) :
          /\ curl' = [curl EXCEPT ![r] = Configure1(curl_easy_init(TRUE), url, upload[r], t, r)]
          /\ hist' = [hist EXCEPT ![r].execs = @ + 1,
                                  ![r].op = "exec",
                                  ![r].pre = [buffer |-> buffer[r], upload |-> upload[r],
                                              upload_data |-> upload_data[r],
                                              rcode |-> rcode[r], url |-> url]]
    /\ buffer' = [buffer EXCEPT ![r] = buffer_clear(@)]
    /\ headers' = [headers EXCEPT ![r] = "null"]
    /\ err' = [err EXCEPT ![r] = 0]
    /\ pc' = [pc EXCEPT ![r] = IF TwoStep(upload[r], t) THEN "phase1" ELSE "terminal"]
    /\ UNCHANGED <<conf, upload, upload_data, rcode, xfer, out>>

LastX(r) == Len(hist[r].xfers)

\* BeforePerform if line 174's buffer_clear were left out
BeforePerform_NoClear(b, phase) == b

\* the buffer as curl_easy_perform finds it: line 174 clears it before the
\* terminal call, nothing touches it before the first-phase call of line 150
BeforePerform(b, phase) == IF phase = "terminal" THEN buffer_clear(b) ELSE b

\* curl_easy_perform returns e to webhdfs_req_exec
PerformReturn(r, e) ==
    /\ err' = [err EXCEPT ![r] = e]
    /\ xfer' = [xfer EXCEPT ![r] = NoXfer]
    /\ pc' = [pc EXCEPT ![r] = IF pc[r] = "phase1" THEN "after1" ELSE "afterT"]

\* curl_easy_perform(curl) is entered (lines 150 and 175; line 174's
\* buffer_clear precedes the terminal one).  A handle without a URL is
\* refused before the transfer is set up: what the handle reports of the
\* transfer before stays as it is.
Perform(r) ==
    /\ pc[r] \in {"phase1", "terminal"}
    /\ xfer[r].st = "idle"
    /\ curl' = [curl EXCEPT ![r] = IF curl[r].url.null THEN Use(@)
                                   ELSE [Use(@) EXCEPT !.info_rcode = 0,
                                                       !.info_redirect = NullStr]]
    /\ hist' = [hist EXCEPT ![r].xfers =
                   Append(@, [phase |-> pc[r], url |-> curl[r].url,
                              method |-> curl[r].method, bodymode |-> curl[r].bodymode,
                              readfn |-> curl[r].readfn,
                              chunked |-> (curl[r].httpheader = "list"),
                              follow |-> curl[r].follow,
                              connected |-> FALSE, responded |-> FALSE, status |-> 0,
                              redirect |-> NullStr, hops |-> 0,
                              body |-> <<>>, accepted |-> <<>>, prodcalls |-> 0])]
    /\ buffer' = [buffer EXCEPT ![r] = BeforePerform(@, pc[r])]
    /\ IF curl[r].url.null
       THEN PerformReturn(r, 3)
       ELSE /\ xfer' = [xfer EXCEPT ![r] = [NoXfer EXCEPT !.st = "connecting"]]
            /\ UNCHANGED <<err, pc>>
    /\ UNCHANGED <<conf, upload, upload_data, rcode, type, headers, out>>

\* the connection cannot be opened
EngineConnectFail(r) ==
    /\ xfer[r].st = "connecting"
    /\ PerformReturn(r, 7)
    /\ UNCHANGED <<conf, buffer, upload, upload_data, rcode, type, curl, headers, out, hist>>

\* the connection is open and the request head is sent
EngineConnect(r) ==
    /\ xfer[r].st = "connecting"
    /\ xfer' = [xfer EXCEPT ![r].st = "sending"]
    /\ hist' = [hist EXCEPT ![r].xfers[LastX(r)].connected = TRUE]
    /\ UNCHANGED <<conf, buffer, upload, upload_data, rcode, pc, type, curl, headers,
                   err, out>>

\* the engine asks the read callback bound to the handle for up to max bytes
\* of request body (only a transfer in PUT or POST body mode has a body)
EngineRead(r, max) ==
    /\ xfer[r].st = "sending"
    /\ curl[r].bodymode # "none"
    /\ ~xfer[r].eof
    /\ LET bound == curl[r].readfn = "webhdfs_req_read"
           q == IF bound THEN curl[r].readdata ELSE r    \* the callback's `stream`
           res == IF bound
                  THEN webhdfs_req_read(upload[q], upload_data[q], max)
                  ELSE [n |-> 0, bytes |-> <<>>, rest |-> upload_data[q], produced |-> FALSE]
       IN  /\ upload_data' = [upload_data EXCEPT ![q] = res.rest]
           /\ xfer' = [xfer EXCEPT ![r].eof = (res.n = 0)]
           /\ hist' = [hist EXCEPT
                  ![r].xfers[LastX(r)].body = @ \o res.bytes,
                  ![r].xfers[LastX(r)].prodcalls = @ + (IF res.produced THEN 1 ELSE 0),
                  ![r].reads = @ + 1,
                  ![r].lastr = [max |-> max, n |-> res.n, bytes |-> res.bytes,
                                adapter |-> bound, produced |-> res.produced,
                                before |-> upload_data[q], up |-> upload[q]],
                  ![r].prodlog = IF res.produced
                                 THEN @ \cup {[xfer |-> LastX(r), phase |-> pc[r],
                                               retrieved |-> hist[r].retrieved,
                                               retargeted |-> hist[r].retargeted,
                                               req |-> q]}
                                 ELSE @]
    /\ UNCHANGED <<conf, buffer, upload, rcode, pc, type, curl, headers, err, out>>

\* the response head arrives: status, and for a redirect possibly a Location
EngineResponse(r, status, loc) ==
    /\ xfer[r].st = "sending"
    /\ curl[r].bodymode = "none" \/ xfer[r].eof
    /\ (~IsRedirect(status) => loc.null)
    /\ (IsRedirect(status) /\ ~loc.null /\ curl[r].follow) => xfer[r].hops < MaxHops
    /\ curl' = [curl EXCEPT ![r].info_rcode = status,
                            ![r].info_redirect =
                                IF IsRedirect(status) /\ ~curl[r].follow THEN loc ELSE @]
    /\ xfer' = [xfer EXCEPT
           ![r].st = IF IsRedirect(status) /\ ~loc.null /\ curl[r].follow
                     THEN "connecting" ELSE "receiving",
           ![r].hops = IF IsRedirect(status) /\ ~loc.null /\ curl[r].follow
                       THEN @ + 1 ELSE @]
    /\ hist' = [hist EXCEPT ![r].xfers[LastX(r)].responded = TRUE,
                            ![r].xfers[LastX(r)].status = status,
                            ![r].xfers[LastX(r)].redirect =
                                IF IsRedirect(status) /\ ~curl[r].follow THEN loc ELSE @,
                            ![r].xfers[LastX(r)].hops =
                                IF IsRedirect(status) /\ ~loc.null /\ curl[r].follow
                                THEN @ + 1 ELSE @]
    /\ UNCHANGED <<conf, buffer, upload, upload_data, rcode, pc, type, headers, err, out>>

\* the engine hands a chunk of the response body to the write callback bound
\* to the handle; a short count aborts the transfer
DeliverChunk(r, chunk, fail) ==
    /\ LET bound == curl[r].writefn = "webhdfs_req_write"
           q == IF bound THEN curl[r].writedata ELSE r   \* the callback's `stream`
           res == IF bound
                  THEN webhdfs_req_write(buffer[q], chunk, fail)
                  ELSE [buffer |-> buffer[q], n |-> Len(chunk)]
       IN  /\ buffer' = [buffer EXCEPT ![q] = res.buffer]
           /\ hist' = [hist EXCEPT ![r].writes = @ + 1,
                                   ![r].lastw = [chunk |-> chunk, n |-> res.n,
                                                 before |-> Contents(buffer[q]),
                                                 req |-> q],
                                   ![r].xfers[LastX(r)].accepted =
                                       IF res.n = Len(chunk) THEN @ \o chunk ELSE @]
           /\ IF res.n # Len(chunk)
              THEN PerformReturn(r, 23)
              ELSE /\ xfer' = [xfer EXCEPT ![r].delivered = @ + 1]
                   /\ UNCHANGED <<err, pc>>
    /\ UNCHANGED <<conf, upload, upload_data, rcode, type, curl, headers, out>>

\* a server sending a body of its own: at most MaxDeliver chunks per transfer
EngineDeliver(r, chunk, fail) ==
    /\ xfer[r].st = "receiving"
    /\ xfer[r].delivered < MaxDeliver
    /\ DeliverChunk(r, chunk, fail)

\* the transfer completes
EngineDone(r) ==
    /\ xfer[r].st = "receiving"
    /\ PerformReturn(r, 0)
    /\ UNCHANGED <<conf, buffer, upload, upload_data, rcode, type, curl, headers, out, hist>>

\* the connection breaks after it was opened
EngineRecvFail(r) ==
    /\ xfer[r].st \in {"sending", "receiving"}
    /\ PerformReturn(r, 56)
    /\ UNCHANGED <<conf, buffer, upload, upload_data, rcode, type, curl, headers, out, hist>>

\* lines 150-172: after the first transfer the redirect URL is read from the
\* handle, the handle re-targeted, the chunked header and the read callback
\* attached; listOk: whether curl_slist_append gets its memory
ExecRedirect(r, listOk) ==
    /\ pc[r] = "after1"
    /\ out' = [out EXCEPT ![r].stderr =
                   IF err[r] # 0 THEN Append(@, curl_easy_strerror(err[r])) ELSE @]
    /\ headers' = [headers EXCEPT ![r] = IF listOk THEN "list" ELSE "null"]
    /\ curl' = [curl EXCEPT ![r] =
                   Configure2(@, Use(@).info_redirect,
                              IF listOk THEN "list" ELSE "null", type[r], r)]
    /\ hist' = [hist EXCEPT ![r].retrieved = TRUE, ![r].retargeted = TRUE]
    /\ pc' = [pc EXCEPT ![r] = "terminal"]
    /\ UNCHANGED <<conf, buffer, upload, upload_data, rcode, type, err, xfer>>

\* lines 175-189: the terminal transfer has returned; mallocOk: whether
\* malloc(512) succeeds
ExecFinish(r, mallocOk) ==
    /\ pc[r] = "afterT"
    /\ (err[r] = 0 => mallocOk)
    /\ \E blobstr \in BlobStrs(buffer[r]) :
          out' = [out EXCEPT
              ![r].error = IF err[r] = 0 THEN @
                           ELSE IF mallocOk THEN Ptr(ErrorMessage(err[r], blobstr))
                           ELSE NullStr,
              ![r].errorSet = IF err[r] = 0 THEN @ ELSE TRUE,
              ![r].ret = IF err[r] # 0 THEN 1 ELSE 0]
    /\ headers' = [headers EXCEPT ![r] = FreeHeaders(@)]
    /\ rcode' = [rcode EXCEPT ![r] = FinalRcode(curl[r], @, err[r])]
    /\ curl' = [curl EXCEPT ![r] = FinishHandle(@, err[r])]
    /\ pc' = [pc EXCEPT ![r] = "done"]
    /\ UNCHANGED <<conf, buffer, upload, upload_data, type, err, xfer, hist>>

Next ==
    \E r \in {1} :
        \/ \E path \in ExecPaths : Open(r, path, FALSE, FALSE, FALSE)
        \/ \E text \in ArgTexts : SetArgs(r, text, FALSE)
        \/ \E func \in {"NULL", "producer"}, data \in Sources \cup {<<>>} :
              SetUpload(r, func, data)
        \/ \E t \in Types : ExecInitFail(r, t)
        \/ \E t \in Types : ExecBegin(r, t)
        \/ Perform(r)
        \/ EngineConnectFail(r)
        \/ EngineConnect(r)
        \/ \E max \in MaxCounts : EngineRead(r, max)
        \/ \E status \in Statuses, loc \in Locations \cup {NullStr} :
              EngineResponse(r, status, loc)
        \/ \E chunk \in Chunks, fail \in BOOLEAN : EngineDeliver(r, chunk, fail)
        \/ EngineDone(r)
        \/ EngineRecvFail(r)
        \/ \E listOk \in BOOLEAN : ExecRedirect(r, listOk)
        \/ \E mallocOk \in BOOLEAN : ExecFinish(r, mallocOk)

Spec == Init /\ [][Next]_vars

(***************************************************************************)
(* A transport that echoes the request body.                               *)
(***************************************************************************)
\* what of the request body of the running transfer was not yet echoed
Unechoed(r) ==
    SubSeq(hist[r].xfers[LastX(r)].body,
           Len(hist[r].xfers[LastX(r)].accepted) + 1,
           Len(hist[r].xfers[LastX(r)].body))

\* the engine hands the next k bytes of the echoed body to the write callback
EngineEcho(r, k, fail) ==
    /\ xfer[r].st = "receiving"
    /\ k <= Len(Unechoed(r))
    /\ DeliverChunk(r, SubSeq(Unechoed(r), 1, k), fail)

\* the transfer completes once the whole body was echoed
EngineEchoDone(r) ==
    /\ xfer[r].st = "receiving"
    /\ Unechoed(r) = <<>>
    /\ EngineDone(r)

\* __webhdfs_req_read applied to a request outside a transfer:
\* webhdfs_req_exec attaches it only with a capability bound (line 161), so
\* the case of line 50 is reached only this way
ReadCall(r, max) ==
    /\ pc[r] = "built"
    /\ ~hist[r].lastr.adapter
    /\ LET res == webhdfs_req_read(upload[r], upload_data[r], max)
       IN  /\ upload_data' = [upload_data EXCEPT ![r] = res.rest]
           /\ hist' = [hist EXCEPT
                  ![r].lastr = [max |-> max, n |-> res.n, bytes |-> res.bytes,
                                adapter |-> TRUE, produced |-> res.produced,
                                before |-> upload_data[r], up |-> upload[r]]]
    /\ UNCHANGED <<conf, buffer, upload, rcode, pc, type, curl, headers, err, xfer, out>>

NextEcho ==
    \E r \in {1} :
        \/ \E path \in ExecPaths : Open(r, path, FALSE, FALSE, FALSE)
        \/ \E func \in {"NULL", "producer"}, data \in Sources \cup {<<>>} :
              SetUpload(r, func, data)
        \/ \E max \in MaxCounts : ReadCall(r, max)
        \/ \E t \in Types : ExecBegin(r, t)
        \/ Perform(r)
        \/ EngineConnect(r)
        \/ \E max \in MaxCounts : EngineRead(r, max)
        \/ \E status \in Statuses, loc \in Locations \cup {NullStr} :
              EngineResponse(r, status, loc)
        \/ \E k \in MaxCounts, fail \in BOOLEAN : EngineEcho(r, k, fail)
        \/ EngineEchoDone(r)
        \/ \E listOk \in BOOLEAN : ExecRedirect(r, listOk)
        \/ \E mallocOk \in BOOLEAN : ExecFinish(r, mallocOk)

SpecEcho == Init /\ [][NextEcho]_vars

(***************************************************************************)
(* webhdfs_req_exec called again on a request that was not opened anew.    *)
(***************************************************************************)
\* lines 118-144 of a further call: as ExecBegin, on the buffer the call
\* before left; what that call did is kept in prev
Reexec(r, t) ==
    /\ pc[r] = "done"
    /\ ~hist[r].initFailed
    /\ hist[r].execs < MaxExecs
    /\ hist[r].xfers # <<>>
    /\ type' = [type EXCEPT ![r] = t]
    /\ \E url \in BlobStrs(buffer[r]) :
          /\ curl' = [curl EXCEPT ![r] = Configure1(curl_easy_init(TRUE), url, upload[r], t, r)]
          /\ hist' = [hist EXCEPT
                 ![r] = [NoHist EXCEPT
                    !.path = hist[r].path,
                    !.wanted = hist[r].wanted,
                    !.nargs = hist[r].nargs,
                    !.execs = hist[r].execs + 1,
                    !.op = "exec",
                    !.pre = [buffer |-> buffer[r], upload |-> upload[r],
                             upload_data |-> upload_data[r],
                             rcode |-> rcode[r], url |-> url],
                    !.prev = [done |-> TRUE, url |-> hist[r].pre.url,
                              accepted |-> hist[r].xfers[LastX(r)].accepted,
                              accepted1 |-> IF LastX(r) = 2
                                            THEN hist[r].xfers[1].accepted ELSE <<>>]]]
    /\ buffer' = [buffer EXCEPT ![r] = buffer_clear(@)]
    /\ headers' = [headers EXCEPT ![r] = "null"]
    /\ err' = [err EXCEPT ![r] = 0]
    /\ pc' = [pc EXCEPT ![r] = IF TwoStep(upload[r], t) THEN "phase1" ELSE "terminal"]
    /\ UNCHANGED <<conf, upload, upload_data, rcode, xfer, out>>

NextReuse ==
    \E r \in {1} :
        \/ \E path \in ExecPaths : Open(r, path, FALSE, FALSE, FALSE)
        \/ \E data \in Sources : SetUpload(r, "producer", data)
        \/ \E t \in {"GET", "PUT"} : ExecBegin(r, t)
        \/ \E t \in {"GET", "PUT"} : Reexec(r, t)
        \/ Perform(r)
        \/ EngineConnectFail(r)
        \/ EngineConnect(r)
        \/ EngineRead(r, 2)
        \/ \E status \in Statuses, loc \in Locations :
              EngineResponse(r, status, IF IsRedirect(status) THEN loc ELSE NullStr)
        \/ EngineDeliver(r, <<"x">>, FALSE)
        \/ EngineDone(r)
        \/ ExecRedirect(r, TRUE)
        \/ ExecFinish(r, TRUE)

SpecReuse == Init /\ [][NextReuse]_vars

(***************************************************************************)
(* The request's operations in any order a caller may use them before and  *)
(* during one execution, webhdfs_req_open on an opened request included.   *)
(***************************************************************************)
NextFrame ==
    \E r \in {1} :
        \/ \E path \in ExecPaths : Open(r, path, FALSE, FALSE, FALSE)
        \/ Reopen(r, Ptr(<<"/">>), FALSE, FALSE, FALSE)
        \/ \E text \in ArgTexts, fail \in BOOLEAN : SetArgs(r, text, fail)
        \/ \E func \in {"NULL", "producer"}, data \in Sources \cup {<<>>} :
              SetUpload(r, func, data)
        \/ \E t \in {"GET", "PUT"} : ExecInitFail(r, t)
        \/ \E t \in {"GET", "PUT"} : ExecBegin(r, t)
        \/ Perform(r)
        \/ EngineConnectFail(r)
        \/ EngineConnect(r)
        \/ EngineRead(r, 2)
        \/ \E status \in Statuses, loc \in Locations :
              EngineResponse(r, status, IF IsRedirect(status) THEN loc ELSE NullStr)
        \/ EngineDeliver(r, <<"x">>, FALSE)
        \/ EngineDone(r)
        \/ ExecRedirect(r, TRUE)
        \/ \E mallocOk \in BOOLEAN : ExecFinish(r, mallocOk)

SpecFrame == Init /\ [][NextFrame]_vars

(***************************************************************************)
(* Two requests executed concurrently, each by its own thread with its own *)
(* handle; every step of either call and of either engine interleaves.     *)
(***************************************************************************)
\* what each request's producer holds and what each request's server sends
ConcSource(r) == IF r = 1 THEN <<"a", "b">> ELSE <<"c">>
ConcChunk(r) == IF r = 1 THEN <<"x">> ELSE <<"y", "z">>

NextConc ==
    \E r \in Reqs :
        \/ \E path \in ExecPaths : Open(r, path, FALSE, FALSE, FALSE)
        \/ SetUpload(r, "producer", ConcSource(r))
        \/ ExecBegin(r, "PUT")
        \/ Perform(r)
        \/ EngineConnectFail(r)
        \/ EngineConnect(r)
        \/ EngineRead(r, 1)
        \/ \E status \in Statuses, loc \in Locations :
              EngineResponse(r, status, IF IsRedirect(status) THEN loc ELSE NullStr)
        \/ EngineDeliver(r, ConcChunk(r), FALSE)
        \/ EngineDone(r)
        \/ ExecRedirect(r, TRUE)
        \/ ExecFinish(r, TRUE)

SpecConc == Init /\ [][NextConc]_vars

(***************************************************************************)
(* webhdfs_req_json_response and the parser it calls.                      *)
(***************************************************************************)
\* the character of s at position i; NUL behind its end
At(s, i) == IF i >= 1 /\ i <= Len(s) THEN s[i] ELSE NUL

Digits == {"0", "1", "2", "3", "4", "5", "6", "7", "8", "9"}

\* the parser's grammar, as far as the bodies here need it: objects, arrays,
\* strings without escapes, unsigned integers.  Each operator takes the
\* position a construct starts at and yields the position behind it, 0 when
\* the text is not of that construct.
RECURSIVE JsonDigits(_, _)
JsonDigits(s, i) == IF At(s, i) \in Digits THEN JsonDigits(s, i + 1) ELSE i

RECURSIVE JsonQuote(_, _)
JsonQuote(s, i) == IF i > Len(s) THEN 0
                   ELSE IF s[i] = "\"" THEN i + 1
                   ELSE JsonQuote(s, i + 1)

JsonString(s, i) == IF At(s, i) = "\"" THEN JsonQuote(s, i + 1) ELSE 0

RECURSIVE JsonValue(_, _)
RECURSIVE JsonMembers(_, _)
RECURSIVE JsonElements(_, _)
JsonValue(s, i) ==
    CASE At(s, i) = "{" -> IF At(s, i + 1) = "}" THEN i + 2 ELSE JsonMembers(s, i + 1)
      [] At(s, i) = "[" -> IF At(s, i + 1) = "]" THEN i + 2 ELSE JsonElements(s, i + 1)
      [] At(s, i) = "\"" -> JsonString(s, i)
      [] At(s, i) = "0" -> i + 1
      [] At(s, i) \in Digits \ {"0"} -> JsonDigits(s, i + 1)
      [] OTHER -> 0

JsonMembers(s, i) ==
    LET j == JsonString(s, i)
        k == IF j = 0 \/ At(s, j) # ":" THEN 0 ELSE JsonValue(s, j + 1)
    IN  IF k = 0 THEN 0
        ELSE IF At(s, k) = "}" THEN k + 1
        ELSE IF At(s, k) = "," THEN JsonMembers(s, k + 1)
        ELSE 0

JsonElements(s, i) ==
    LET k == JsonValue(s, i)
    IN  IF k = 0 THEN 0
        ELSE IF At(s, k) = "]" THEN k + 1
        ELSE IF At(s, k) = "," THEN JsonElements(s, k + 1)
        ELSE 0

\* whether text is one JSON value and nothing else
IsJson(text) == JsonValue(text, 1) = Len(text) + 1

\* what the parser writes into err[] when it returns NULL
ParseError == <<"p", "a", "r", "s", "e", " ", "e", "r", "r", "o", "r">>

\* yajl_tree_parse(text, err, sizeof(err)): the tree of text (named here by
\* the text it is the tree of), or NULL and a message in err
yajl_tree_parse(text) ==
    IF IsJson(text) THEN [node |-> Ptr(text), err |-> <<>>]
    ELSE [node |-> NullStr, err |-> ParseError]

\* "response-parse: %s\n"
ResponseParseLine(e) ==
    <<"r", "e", "s", "p", "o", "n", "s", "e", "-", "p", "a", "r", "s", "e", ":", " ">> \o e

\* json_response if the buffer were parsed whatever its size
json_response_AnySize(b, text) ==
    LET res == yajl_tree_parse(text)
    IN  [node |-> res.node,
         diag |-> IF res.node.null THEN <<ResponseParseLine(res.err)>> ELSE <<>>]

\* lines 196-202: the node returned and the lines printed to stderr; text is
\* the C string the parser reads at buffer.blob
json_response(b, text) ==
    IF b.size = 0 THEN [node |-> NullStr, diag |-> <<>>]
    ELSE LET res == yajl_tree_parse(text)
         IN  [node |-> res.node,
              diag |-> IF res.node.null THEN <<ResponseParseLine(res.err)>> ELSE <<>>]

\* webhdfs_req_json_response(req), called after webhdfs_req_exec has returned
JsonResponse(r) ==
    /\ pc[r] = "done"
    /\ ~out[r].decoded
    /\ \E blobstr \in BlobStrs(buffer[r]) :
          LET res == json_response(buffer[r], blobstr.s)
          IN  out' = [out EXCEPT ![r].decoded = TRUE,
                                 ![r].doc = res.node,
                                 ![r].stderr = @ \o res.diag]
    /\ UNCHANGED <<conf, buffer, upload, upload_data, rcode, pc, type, curl, headers,
                   err, xfer, hist>>

\* response bodies for the decoder: two JSON documents and a malformed one
JsonBodies == {<<"{", "}">>, <<"{", "\"", "k", "\"", ":", "1", "}">>, <<"{", "x">>}

NextJson ==
    \E r \in {1} :
        \/ \E path \in ExecPaths : Open(r, path, FALSE, FALSE, FALSE)
        \/ \E func \in {"NULL", "producer"}, data \in Sources \cup {<<>>} :
              SetUpload(r, func, data)
        \/ \E t \in Types : ExecInitFail(r, t)
        \/ \E t \in Types : ExecBegin(r, t)
        \/ Perform(r)
        \/ EngineConnectFail(r)
        \/ EngineConnect(r)
        \/ \E max \in MaxCounts : EngineRead(r, max)
        \/ \E status \in Statuses, loc \in Locations \cup {NullStr} :
              EngineResponse(r, status, loc)
        \/ \E body \in JsonBodies, fail \in BOOLEAN : EngineDeliver(r, body, fail)
        \/ EngineDone(r)
        \/ EngineRecvFail(r)
        \/ \E listOk \in BOOLEAN : ExecRedirect(r, listOk)
        \/ \E mallocOk \in BOOLEAN : ExecFinish(r, mallocOk)
        \/ JsonResponse(r)

SpecJson == Init /\ [][NextJson]_vars

(***************************************************************************)
(* Properties.                                                             *)
(***************************************************************************)
\* the terminal transfer of request r's execution, if it was started
HasTerminal(r) ==
    /\ hist[r].xfers # <<>>
    /\ hist[r].xfers[LastX(r)].phase = "terminal"
Terminal(r) == hist[r].xfers[LastX(r)]

Returned(r) == pc[r] = "done"

\* C1: with an upload capability bound, the caller's producer is never invoked
\* during the first (no-body) transfer nor before the redirect URL has been
\* read from the engine; every invocation happens during the second transfer,
\* after the handle was re-targeted.
C1_ProducerOnlyInSecondTransfer ==
    \A r \in Reqs :
        /\ \A e \in hist[r].prodlog :
              /\ e.phase = "terminal"
              /\ e.xfer = 2
              /\ e.retrieved
              /\ e.retargeted
        /\ \A i \in 1..Len(hist[r].xfers) :
              hist[r].xfers[i].phase = "phase1" => hist[r].xfers[i].prodcalls = 0
        /\ (pc[r] \in {"phase1", "after1"} => hist[r].prodlog = {})

\* an upload whose producer was invoked, after a first transfer that was redirected
C1_Witness ==
    \E r \in Reqs :
        /\ hist[r].prodlog # {}
        /\ Len(hist[r].xfers) = 2
        /\ hist[r].xfers[1].status = 307
        /\ ~hist[r].xfers[2].url.null
        /\ hist[r].xfers[2].body # <<>>

\* C2: when the terminal transfer fails, the string handed back through *error
\* holds the engine's error description and the URL that was being accessed:
\* the URL the handle was set to for that transfer (the request URL with no
\* upload, the redirect URL with one).
C2_ErrorNamesAccessedUrl ==
    \A r \in Reqs :
        (Returned(r) /\ HasTerminal(r) /\ err[r] # 0 /\ ~out[r].error.null) =>
            /\ Contains(out[r].error.s, curl_easy_strerror(err[r]))
            /\ (~Terminal(r).url.null => Contains(out[r].error.s, Terminal(r).url.s))

\* C3: no silent failure: whenever webhdfs_req_exec has returned nonzero,
\* *error was set by that call to a non-empty string.
C3_NoSilentFailure ==
    \A r \in Reqs :
        (Returned(r) /\ out[r].ret # 0) =>
            /\ out[r].errorSet
            /\ ~out[r].error.null
            /\ out[r].error.s # <<>>

\* C4: the handle is released on every exit path: once the call has returned
\* no handle it acquired is live, the header list it allocated is freed, and
\* no handle is ever touched while it is not live.
C4_HandleReleased ==
    \A r \in Reqs :
        /\ ~curl[r].misuse
        /\ (pc[r] \in {"phase1", "after1", "terminal", "afterT"} => curl[r].state = "live")
        /\ Returned(r) =>
              /\ curl[r].state = (IF hist[r].initFailed THEN "none" ELSE "released")
              /\ headers[r] \in {"null", "freed"}
              /\ (curl[r].httpheader = "list" => headers[r] = "freed")

\* a returned upload whose terminal transfer failed with the header list attached
C4_Witness ==
    \E r \in Reqs :
        /\ Returned(r)
        /\ err[r] # 0
        /\ curl[r].state = "released"
        /\ headers[r] = "freed"
        /\ Len(hist[r].xfers) = 2

\* C5 as stated: after the call, response_code is the terminal transfer's HTTP
\* status whenever a connection was established, and keeps the value it had
\* before the call when the connection never opened.
C5_RcodeOrPrior ==
    \A r \in Reqs :
        Returned(r) =>
            IF HasTerminal(r) /\ Terminal(r).connected
            THEN Terminal(r).responded => rcode[r] = Terminal(r).status
            ELSE rcode[r] = hist[r].pre.rcode

\* C5 amended: after the call, response_code keeps its prior value only when
\* the handle could not be initialised; once a handle was acquired it is the
\* status of the last response received during the terminal transfer, and 0
\* when that transfer received no response (the connection never opened, or
\* broke before a response arrived); a terminal transfer the engine refused
\* for want of a URL (an upload whose first phase yielded no redirect URL)
\* leaves what the first-phase transfer set: its last status, or 0.
C5_RcodeOrZero ==
    \A r \in Reqs :
        Returned(r) =>
            IF hist[r].initFailed
            THEN rcode[r] = hist[r].pre.rcode
            ELSE /\ HasTerminal(r)
                 /\ LET x == IF Terminal(r).url.null /\ LastX(r) = 2
                             THEN hist[r].xfers[1] ELSE Terminal(r)
                    IN  rcode[r] = (IF x.responded THEN x.status ELSE 0)

\* a returned call whose terminal transfer never connected: the prior nonzero
\* response_code was replaced by 0
C5_Witness ==
    \E r \in Reqs :
        /\ Returned(r)
        /\ ~hist[r].initFailed
        /\ ~Terminal(r).connected
        /\ hist[r].pre.rcode # 0
        /\ rcode[r] = 0

\* C6: build errors are surfaced: an append that fails while the URL or its
\* query string is assembled makes the build call return nonzero, so that a
\* caller who has seen only zero results holds a buffer with the full target.
C6_BuildErrorsSurfaced ==
    \A r \in Reqs :
        /\ hist[r].appendFailed => hist[r].errSeen
        /\ (pc[r] = "built" /\ ~hist[r].errSeen) =>
              /\ Contents(buffer[r]) = hist[r].wanted
              /\ BlobStrs(buffer[r]) = {Ptr(hist[r].wanted)}

\* percent-encoding of the characters that are reserved in a query string
RECURSIVE Escaped(_)
Escaped(s) ==
    IF s = <<>> THEN <<>>
    ELSE (CASE Head(s) = "&" -> <<"%", "2", "6">>
            [] Head(s) = "=" -> <<"%", "3", "D">>
            [] Head(s) = "%" -> <<"%", "2", "5">>
            [] Head(s) = " " -> <<"%", "2", "0">>
            [] Head(s) = "#" -> <<"%", "2", "3">>
            [] Head(s) = "?" -> <<"%", "3", "F">>
            [] OTHER -> <<Head(s)>>) \o Escaped(Tail(s))

StripLeadingSlash(path) ==
    IF path.null \/ path.s = <<>> THEN <<>>
    ELSE IF Head(path.s) = "/" THEN Tail(path.s) ELSE path.s

\* the URL the builder's contract describes
ContractUrl(c, path) ==
    (IF c.use_ssl THEN <<"h", "t", "t", "p", "s">> ELSE <<"h", "t", "t", "p">>)
    \o <<":", "/", "/">> \o c.hdfs_host \o <<":">> \o FormatD(c.webhdfs_port)
    \o <<"/", "w", "e", "b", "h", "d", "f", "s", "/", "v", "1", "/">>
    \o StripLeadingSlash(path) \o <<"?">>
    \o (IF c.hdfs_user.null THEN <<>>
        ELSE <<"u", "s", "e", "r", ".", "n", "a", "m", "e", "=">>
             \o Escaped(c.hdfs_user.s) \o <<"&">>)
    \o (IF c.token.null THEN <<>>
        ELSE <<"d", "e", "l", "e", "g", "a", "t", "i", "o", "n", "=">>
             \o Escaped(c.token.s) \o <<"&">>)

\* C7: when no append fails, webhdfs_req_open leaves the buffer equal to
\* <scheme>://<host>:<port>/webhdfs/v1/<path without its leading slash>?
\* followed by user.name=<user>& iff a user is configured, then
\* delegation=<token>& iff a token is configured, each once and escaped.
C7_OpenBuildsContractUrl ==
    \A r \in Reqs :
        (pc[r] = "built" /\ hist[r].nargs = 0 /\ ~hist[r].appendFailed) =>
            /\ Contents(buffer[r]) = ContractUrl(conf[r], hist[r].path)
            /\ Occurrences(Contents(buffer[r]), <<"&">>) =
                  (IF conf[r].hdfs_user.null THEN 0 ELSE 1)
                  + (IF conf[r].token.null THEN 0 ELSE 1)

\* C8: a null path and an empty path both give the filesystem root: the path
\* segment of the URL is empty, and nothing outside the path string is read.
C8_NullOrEmptyPathIsRoot ==
    \A r \in Reqs :
        (pc[r] = "built" /\ hist[r].nargs = 0 /\ ~hist[r].appendFailed
         /\ (hist[r].path.null \/ hist[r].path.s = <<>>)) =>
            /\ ~hist[r].oob
            /\ Contains(Contents(buffer[r]),
                        <<"/", "v", "1", "/", "?">>)

\* C9: the two-step upload applies to PUT and POST only: an execution of kind
\* GET or DELETE performs exactly one transfer, whatever the upload capability
\* is, and the outbound adapter is neither bound to the handle nor invoked.
C9_GetDeleteSingleTransfer ==
    \A r \in Reqs :
        (hist[r].execs > 0 /\ type[r] \in {"GET", "DELETE"}) =>
            /\ Len(hist[r].xfers) <= 1
            /\ curl[r].readfn # "webhdfs_req_read"
            /\ hist[r].prodlog = {}
            /\ (Returned(r) /\ ~hist[r].initFailed => Len(hist[r].xfers) = 1)

\* C10: when the handle cannot be initialised the call returns failure with no
\* partial state: no transfer, no adapter invocation, and the buffer (still the
\* URL), the upload capability and response_code as they were before the call.
C10_InitFailureLeavesNoTrace ==
    \A r \in Reqs :
        (Returned(r) /\ hist[r].initFailed) =>
            /\ out[r].ret # 0
            /\ hist[r].xfers = <<>>
            /\ hist[r].writes = 0
            /\ hist[r].prodlog = {}
            /\ buffer[r] = hist[r].pre.buffer
            /\ Contents(buffer[r]) = hist[r].wanted
            /\ upload[r] = hist[r].pre.upload
            /\ upload_data[r] = hist[r].pre.upload_data
            /\ rcode[r] = hist[r].pre.rcode

\* a returned call whose handle could not be initialised, on a request that
\* has a URL with appended arguments and an upload capability
C10_Witness ==
    \E r \in Reqs :
        /\ Returned(r)
        /\ hist[r].initFailed
        /\ hist[r].nargs > 0
        /\ upload[r] # "NULL"
        /\ hist[r].pre.rcode # 0

\* C11: webhdfs_req_json_response returns no document and prints nothing when
\* the buffer is empty; for a non-empty buffer that is not valid JSON it
\* returns no document, prints one non-empty diagnostic and returns normally;
\* for valid JSON it returns the document of the buffer's contents; in all
\* three cases buffer, upload capability, its context and response code are
\* left as they were.
C11_DecoderContract ==
    [][\A r \in Reqs :
          (out'[r].decoded /\ ~out[r].decoded) =>
              LET body == Contents(buffer[r])
              IN  /\ buffer'[r] = buffer[r]
                  /\ upload'[r] = upload[r]
                  /\ upload_data'[r] = upload_data[r]
                  /\ rcode'[r] = rcode[r]
                  /\ pc'[r] = "done"
                  /\ out'[r].ret = out[r].ret
                  /\ (body = <<>> =>
                         /\ out'[r].doc.null
                         /\ out'[r].stderr = out[r].stderr)
                  /\ (body # <<>> /\ ~IsJson(body) =>
                         /\ out'[r].doc.null
                         /\ Len(out'[r].stderr) = Len(out[r].stderr) + 1
                         /\ SubSeq(out'[r].stderr, 1, Len(out[r].stderr)) = out[r].stderr
                         /\ out'[r].stderr[Len(out'[r].stderr)] # <<>>)
                  /\ (IsJson(body) =>
                         /\ out'[r].doc = Ptr(body)
                         /\ out'[r].stderr = out[r].stderr)]_vars

\* a GET whose response body {"k":1} was decoded into a document
C11_Witness ==
    \E r \in Reqs :
        /\ out[r].decoded
        /\ type[r] = "GET"
        /\ out[r].ret = 0
        /\ out[r].doc = Ptr(<<"{", "\"", "k", "\"", ":", "1", "}">>)
        /\ Contents(buffer[r]) = out[r].doc.s

\* C12: in an upload execution the body of the terminal request is, in
\* order, what the producer supplied up to its first 0 (body followed by what
\* the producer still holds is the sequence it started with, and all of it
\* once a PUT or POST has completed); each call of
\* __webhdfs_req_read with a capability bound hands max = size*nitems to the
\* producer and returns exactly the producer's count with the producer's
\* bytes, and with none bound returns 0 without calling the producer; with a
\* transport that echoes the request body, the buffer after a successful
\* execution is that byte sequence.
C12_BodyIsProducedBytes ==
    \A r \in Reqs :
        /\ hist[r].lastr.adapter =>
              IF hist[r].lastr.up = "NULL"
              THEN /\ hist[r].lastr.n = 0
                   /\ ~hist[r].lastr.produced
                   /\ hist[r].lastr.bytes = <<>>
              ELSE /\ hist[r].lastr.produced
                   /\ hist[r].lastr.n = Producer(hist[r].lastr.before, hist[r].lastr.max).n
                   /\ hist[r].lastr.n = Len(hist[r].lastr.bytes)
                   /\ hist[r].lastr.n <= hist[r].lastr.max
                   /\ hist[r].lastr.bytes =
                          SubSeq(hist[r].lastr.before, 1, Len(hist[r].lastr.bytes))
        /\ (HasTerminal(r) /\ hist[r].pre.upload # "NULL") =>
              /\ Terminal(r).body \o upload_data[r] = hist[r].pre.upload_data
              /\ (Returned(r) /\ err[r] = 0) =>
                    /\ Contents(buffer[r]) = Terminal(r).body
                    /\ (type[r] \in {"PUT", "POST"} =>
                           Terminal(r).body = hist[r].pre.upload_data)

\* an upload of "ab", produced one byte at a time, echoed and returned
C12_Witness ==
    \E r \in Reqs :
        /\ Returned(r) /\ HasTerminal(r) /\ err[r] = 0
        /\ hist[r].pre.upload # "NULL"
        /\ Terminal(r).prodcalls = 3
        /\ Terminal(r).body = <<"a", "b">>
        /\ Contents(buffer[r]) = <<"a", "b">>

\* C13: webhdfs_req_exec performs exactly one transfer with no upload
\* capability bound and exactly two, the first-phase one before the terminal
\* one, with one bound; no transfer is repeated whatever fails; a failed first
\* phase or a missing redirect neither stops the second phase nor fails the
\* call: it returns failure exactly when the handle could not be initialised
\* or the terminal transfer failed.
C13_TransfersAndResult ==
    \A r \in Reqs :
        /\ Len(hist[r].xfers) <= (IF hist[r].pre.upload = "NULL" THEN 1 ELSE 2)
        /\ \A i \in 1..Len(hist[r].xfers) :
              hist[r].xfers[i].phase =
                  (IF hist[r].pre.upload # "NULL" /\ i = 1 THEN "phase1" ELSE "terminal")
        /\ (hist[r].initFailed => hist[r].xfers = <<>>)
        /\ (Returned(r) /\ ~hist[r].initFailed) =>
              /\ Len(hist[r].xfers) = (IF hist[r].pre.upload = "NULL" THEN 1 ELSE 2)
              /\ HasTerminal(r)
        /\ Returned(r) =>
              ((out[r].ret # 0) <=> (hist[r].initFailed \/ (HasTerminal(r) /\ err[r] # 0)))

\* an upload whose first phase failed (the connection broke after the
\* redirect had arrived, the failure was printed), whose second phase ran all
\* the same and succeeded: the call returned success
C13_Witness ==
    \E r \in Reqs :
        /\ Returned(r)
        /\ hist[r].pre.upload # "NULL"
        /\ Len(hist[r].xfers) = 2
        /\ hist[r].xfers[1].status = 307
        /\ out[r].stderr # <<>>
        /\ err[r] = 0
        /\ out[r].ret = 0

\* C14: in an upload execution the second transfer is addressed to exactly
\* the redirect URL the engine reported after the first one, never to the
\* namenode URL; the chunked header, the read callback and the PUT/POST body
\* mode are attached for the second transfer only; and the response_code
\* reported afterwards is the second transfer's status, not the first's.
C14_SecondTransferTargetAndStatus ==
    \A r \in Reqs :
        /\ \A i \in 1..Len(hist[r].xfers) :
              (hist[r].xfers[i].phase = "phase1" \/ hist[r].pre.upload = "NULL") =>
                  /\ ~hist[r].xfers[i].chunked
                  /\ hist[r].xfers[i].bodymode = "none"
                  /\ hist[r].xfers[i].readfn = "default"
        /\ Len(hist[r].xfers) = 2 =>
              /\ hist[r].xfers[2].url = hist[r].xfers[1].redirect
              /\ hist[r].xfers[2].url # hist[r].pre.url
              /\ hist[r].xfers[2].readfn = "webhdfs_req_read"
              /\ (type[r] \in {"PUT", "POST"} => hist[r].xfers[2].bodymode = type[r])
              /\ Returned(r) =>
                    rcode[r] = (IF hist[r].xfers[2].responded
                                THEN hist[r].xfers[2].status ELSE 0)

\* C15: webhdfs_req_exec enables redirect following on the handle exactly
\* when the request has no upload capability bound at the time of the call;
\* with one bound, the engine follows no redirect of the first transfer (nor
\* of the second): the redirect is left to be read from the handle.
C15_FollowIffNoUpload ==
    \A r \in Reqs :
        /\ (curl[r].state = "live" => curl[r].follow = (hist[r].pre.upload = "NULL"))
        /\ \A i \in 1..Len(hist[r].xfers) :
              /\ hist[r].xfers[i].follow = (hist[r].pre.upload = "NULL")
              /\ (hist[r].pre.upload # "NULL" => hist[r].xfers[i].hops = 0)

\* an upload whose first transfer was answered by a redirect with a Location:
\* the engine did not follow it and reports it as the redirect URL
C15_Witness ==
    \E r \in Reqs :
        /\ hist[r].pre.upload # "NULL"
        /\ Len(hist[r].xfers) = 2
        /\ hist[r].xfers[1].status = 307
        /\ ~hist[r].xfers[1].redirect.null
        /\ hist[r].xfers[1].hops = 0
        /\ ~hist[r].xfers[1].follow

\* C16: each call of __webhdfs_req_write either leaves the buffer holding
\* what it held followed by exactly the size*nitems bytes received and
\* returns size*nitems, or, the append having failed, returns 0 with the
\* buffer's contents as they were; the count returned is never partial, and
\* no call reorders or drops what earlier calls accepted.
C16_WriteAppendsOrAborts ==
    [][\A r \in Reqs :
          hist'[r].writes = hist[r].writes + 1 =>
              LET w == hist'[r].lastw
              IN  /\ w.req = r
                  /\ w.before = Contents(buffer[r])
                  /\ w.n \in {0, Len(w.chunk)}
                  /\ (w.n = Len(w.chunk) =>
                         Contents(buffer'[r]) = Contents(buffer[r]) \o w.chunk)
                  /\ (w.n = 0 => Contents(buffer'[r]) = Contents(buffer[r]))
                  /\ hist'[r].xfers[LastX(r)].accepted =
                         hist[r].xfers[LastX(r)].accepted
                             \o (IF w.n = 0 THEN <<>> ELSE w.chunk)]_vars

\* a second call of the adapter in one transfer: "b" accepted behind "a"
C16_Witness ==
    \E r \in Reqs :
        /\ hist[r].writes = 2
        /\ hist[r].lastw.before = <<"a">>
        /\ hist[r].lastw.chunk = <<"b">>
        /\ hist[r].lastw.n = 1
        /\ Contents(buffer[r]) = <<"a", "b">>

\* C17: two webhdfs_req_exec calls running concurrently on two requests with
\* their own handles do not interfere, however their steps and callbacks
\* interleave: each request's buffer holds only bytes its own transfer
\* delivered, each producer is called only for its own request and only its
\* own bytes are sent, and each response_code and result are those of the
\* request's own terminal transfer; each callback acts on the request its
\* handle was bound to and on nothing else.
C17_NoInterference ==
    \A r \in Reqs :
        /\ (curl[r].state = "live" => curl[r].writedata = r)
        /\ (curl[r].readfn = "webhdfs_req_read" => curl[r].readdata = r)
        /\ hist[r].lastw.req \in {0, r}
        /\ \A e \in hist[r].prodlog : e.req = r
        /\ (hist[r].xfers # <<>> =>
              /\ Contents(buffer[r]) = hist[r].xfers[LastX(r)].accepted
              /\ \A i \in 1..LastX(r) :
                    \A j \in 1..Len(hist[r].xfers[i].accepted) :
                        \E k \in 1..Len(ConcChunk(r)) :
                            hist[r].xfers[i].accepted[j] = ConcChunk(r)[k]
              /\ hist[r].xfers[LastX(r)].body \o upload_data[r] = hist[r].pre.upload_data
              /\ hist[r].pre.upload_data \in {<<>>, ConcSource(r)})
        /\ (hist[r].xfers = <<>> => upload_data[r] \in {<<>>, ConcSource(r)})
        /\ Returned(r) =>
              /\ HasTerminal(r)
              /\ (out[r].ret # 0) = (err[r] # 0)
              /\ LET x == IF Terminal(r).url.null /\ LastX(r) = 2
                          THEN hist[r].xfers[1] ELSE Terminal(r)
                 IN  rcode[r] = (IF x.responded THEN x.status ELSE 0)

\* both uploads are in their second transfer at the same time, each has sent
\* its own producer's bytes and each buffer holds its own response
C17_Witness ==
    /\ \A r \in Reqs :
          /\ pc[r] = "terminal"
          /\ xfer[r].st = "receiving"
          /\ Len(hist[r].xfers) = 2
          /\ hist[r].xfers[2].body = ConcSource(r)
          /\ Contents(buffer[r]) = ConcChunk(r)
    /\ buffer[1] # buffer[2]

\* what C18 has in common as stated and as amended: the URL the first
\* transfer goes to is the string the buffer held when the call began; the
\* buffer is empty from then until a transfer delivers; from the start of a
\* transfer on it holds exactly what the inbound adapter accepted during that
\* transfer, so that on return it holds the terminal transfer's accepted bytes
\* and nothing of the URL or of the first-phase body
C18_BufferPerTransfer(r) ==
    /\ (pc[r] \in {"phase1", "terminal"} /\ hist[r].xfers = <<>>) =>
          /\ buffer[r].size = 0
          /\ curl[r].url = hist[r].pre.url
          /\ hist[r].pre.url \in BlobStrs(hist[r].pre.buffer)
    /\ hist[r].xfers # <<>> =>
          /\ hist[r].xfers[1].url = hist[r].pre.url
          /\ Contents(buffer[r]) = hist[r].xfers[LastX(r)].accepted
    /\ (hist[r].xfers # <<>> /\ ~hist[r].prev.done) =>
          hist[r].xfers[1].url = Ptr(Contents(hist[r].pre.buffer))
    /\ (Returned(r) /\ ~hist[r].initFailed) =>
          /\ HasTerminal(r)
          /\ Contents(buffer[r]) = Terminal(r).accepted

\* C18 as stated: ... hence a second webhdfs_req_exec on the same request
\* without rebuilding the URL targets the previous response body, not the
\* original URL.
C18_ReuseTargetsBody ==
    \A r \in Reqs :
        /\ C18_BufferPerTransfer(r)
        /\ hist[r].prev.done =>
              /\ hist[r].pre.url = Ptr(hist[r].prev.accepted)
              /\ hist[r].pre.url # hist[r].prev.url

\* C18 amended: ... a further webhdfs_req_exec without rebuilding the URL
\* targets the string the buffer's storage begins with: the previous
\* response body if the previous terminal transfer accepted any byte;
\* otherwise what the storage held before it, which is the previous
\* first-phase response body if there was one and else the URL of the
\* previous call.
C18_ReuseTargetsStorage ==
    \A r \in Reqs :
        /\ C18_BufferPerTransfer(r)
        /\ hist[r].prev.done =>
              hist[r].pre.url =
                  (IF hist[r].prev.accepted # <<>> THEN Ptr(hist[r].prev.accepted)
                   ELSE IF hist[r].prev.accepted1 # <<>> THEN Ptr(hist[r].prev.accepted1)
                   ELSE hist[r].prev.url)

\* a second call, begun after a call whose terminal transfer failed to
\* connect: its first transfer goes to the URL of the call before
C18_Witness ==
    \E r \in Reqs :
        /\ hist[r].prev.done
        /\ hist[r].prev.accepted = <<>>
        /\ hist[r].prev.accepted1 = <<>>
        /\ hist[r].xfers # <<>>
        /\ hist[r].xfers[1].url = hist[r].prev.url
        /\ hist[r].xfers[1].url = Ptr(hist[r].wanted)

\* whether a step changes anything of request r
C19_Changed(r) ==
    <<buffer[r], upload[r], upload_data[r], rcode[r], pc[r], type[r], curl[r],
      headers[r], err[r], xfer[r], out[r], hist[r]>>
    # <<buffer'[r], upload'[r], upload_data'[r], rcode'[r], pc'[r], type'[r], curl'[r],
        headers'[r], err'[r], xfer'[r], out'[r], hist'[r]>>

\* a step of request r that is a call of the builder operation named op
C19_Call(r, op) ==
    /\ C19_Changed(r)
    /\ pc[r] \in {"new", "built"}
    /\ pc'[r] = "built"
    /\ hist'[r].op = op

\* a step of request r that is part of webhdfs_req_exec
C19_ExecStep(r) ==
    /\ C19_Changed(r)
    /\ pc'[r] \notin {"new", "built"}

\* C19: frame conditions.  webhdfs_req_open always leaves the upload
\* capability absent, and only webhdfs_req_set_upload makes it present, so
\* that it is present only if set_upload was called after the latest open;
\* webhdfs_req_set_upload leaves buffer and response_code alone;
\* webhdfs_req_set_args leaves capability, context and response_code alone
\* and only adds to the end of the buffer; no step of webhdfs_req_exec
\* changes the capability, and the context changes only by what the producer
\* itself takes from it; *error is assigned only by a call that returns
\* failure.
C19_Frame ==
    [][\A r \in Reqs :
          /\ C19_Call(r, "open") =>
                /\ upload'[r] = "NULL"
                /\ upload_data'[r] = <<>>
                /\ rcode'[r] = rcode[r]
          /\ (upload'[r] # "NULL" /\ upload'[r] # upload[r]) => C19_Call(r, "set_upload")
          /\ C19_Call(r, "set_upload") =>
                /\ buffer'[r] = buffer[r]
                /\ rcode'[r] = rcode[r]
          /\ C19_Call(r, "set_args") =>
                /\ upload'[r] = upload[r]
                /\ upload_data'[r] = upload_data[r]
                /\ rcode'[r] = rcode[r]
                /\ Len(Contents(buffer'[r])) >= Len(Contents(buffer[r]))
                /\ SubSeq(Contents(buffer'[r]), 1, Len(Contents(buffer[r])))
                       = Contents(buffer[r])
          /\ C19_ExecStep(r) =>
                /\ upload'[r] = upload[r]
                /\ \/ upload_data'[r] = upload_data[r]
                   \/ /\ hist'[r].reads = hist[r].reads + 1
                      /\ hist'[r].lastr.produced
                      /\ upload_data'[r] =
                             Producer(upload_data[r], hist'[r].lastr.max).rest
                /\ (out'[r].error # out[r].error \/ out'[r].errorSet # out[r].errorSet) =>
                       (pc'[r] = "done" /\ out'[r].ret # 0)
                /\ (pc'[r] = "done" /\ out'[r].ret = 0) =>
                       (out'[r].error = out[r].error /\ ~out'[r].errorSet)]_vars

\* a request opened again (path "/"), then given arguments and a capability,
\* then executed: the upload succeeded, the capability is still bound, the
\* producer's context is used up and *error was never assigned
C19_Witness ==
    \E r \in Reqs :
        /\ Returned(r)
        /\ out[r].ret = 0
        /\ ~out[r].errorSet
        /\ hist[r].path = Ptr(<<"/">>)
        /\ Contains(Contents(hist[r].pre.buffer), <<"o", "p", "=">>)
        /\ upload[r] = "producer"
        /\ hist[r].pre.upload_data = <<"a", "b">>
        /\ upload_data[r] = <<>>

=============================================================================
